---- MODULE Spec2Model ----
(***************************************************************************)
(* Access-control model of the issue tracker's REST backend: the projects, *)
(* tickets, comments and users routers and the auth middleware, with the   *)
(* database tables they read and write.                                    *)
(*                                                                         *)
(* A request is one atomic action in Spec (requests handled one after the  *)
(* other).  SpecConc splits POST /projects/:id/members at its awaits, so   *)
(* that two such requests interleave.  SpecPage runs the pagination of the *)
(* list endpoints over every query and every number of matching rows, and  *)
(* SpecStatus runs PUT /tickets/:id with a status on a ticket in every     *)
(* status.  SpecViewer runs sequences of PUT /tickets/:id by one VIEWER,   *)
(* SpecRace splits PUT and DELETE /tickets/:id at their awaits while the   *)
(* project's owner removes or demotes the requester, and SpecForm is the   *)
(* ticket detail page of the frontend sending its requests to the backend. *)
(*                                                                         *)
(* The Prisma schema is not part of the sources.  The ProjectRole rows of   *)
(* a project go with the project (every project has its creator's row, so  *)
(* no project could be deleted otherwise).  What a delete does to the      *)
(* tickets of a project, the comments of a ticket and the comments of a    *)
(* user (cascade, or refusal by the foreign key, `restrict`) is a          *)
(* nondeterministic choice of the deleting action.  Request bodies that    *)
(* are handed to Prisma whole (PUT /tickets/:id) are modelled over the     *)
(* scalar columns of the row; nested relation writes are not modelled.     *)
(***************************************************************************)
EXTENDS Integers, FiniteSets, Sequences, TLC

\* Number of requests handled after the initial database state.
MaxRequests == 1

Users == {"u1", "u2", "u3"}
\* What a request presents as its credential: a valid token issued to a user,
\* no Authorization header, a token past its expiry, or a token that is
\* malformed or signed with another secret.
NoToken == "notoken"
ExpiredToken == "expired"
MalformedToken == "malformed"
Credentials == Users \cup {NoToken, ExpiredToken, MalformedToken}
ProjectIds == {"p1", "p2"}
TicketIds == {"t1", "t2"}
CommentIds == {"c1", "c2"}
\* The label ids a request names; the rows of the label table are Labels.
LabelIds == {"l0", "l1", "l2"}
Labels == {"l1", "l2"}

NULL == "null"
ABSENT == "absent"

Names == {"n1", "n2"}
\* The name of a body whose name is the empty string.
EmptyName == ""
Titles == {"a", "b"}
Contents == {"x", "y"}

ProjectRoleValues == {"OWNER", "ADMIN", "MEMBER", "VIEWER"}
TicketStatuses == {"OPEN", "IN_PROGRESS", "REVIEW", "TESTING", "RESOLVED", "CLOSED"}
GlobalRoles == {"ADMIN", "MANAGER", "DEVELOPER", "TESTER"}

VARIABLES users, projects, projectRoles, tickets, comments, last, nreq, inflight, page, form

db == <<users, projects, projectRoles, tickets, comments>>
vars == <<users, projects, projectRoles, tickets, comments, last, nreq, inflight, page, form>>

\* The rank table of the access-control evaluator.
accessLevels(role) ==
    CASE role = "OWNER" -> 4
      [] role = "ADMIN" -> 3
      [] role = "MEMBER" -> 2
      [] role = "VIEWER" -> 1
      [] OTHER -> 0

\* prisma.projectRole.findUnique({ where: { userId_projectId } }): the role of
\* the row, "NONE" when there is no row.
RoleOf(u, p) ==
    IF \E r \in projectRoles : r.userId = u /\ r.projectId = p
    THEN (CHOOSE r \in projectRoles : r.userId = u /\ r.projectId = p).role
    ELSE "NONE"

RowsOf(u, p) == {r \in projectRoles : r.userId = u /\ r.projectId = p}

\* A function with one more (or one replaced) row.
Put(f, k, v) == [x \in DOMAIN f \cup {k} |-> IF x = k THEN v ELSE f[x]]
\* A function without the rows of K.
Drop(f, K) == [x \in DOMAIN f \ K |-> f[x]]

NoBody == [title |-> ABSENT, status |-> ABSENT, assignedTo |-> ABSENT,
           projectId |-> ABSENT, createdBy |-> ABSENT]

\* res.status(code).json({ errors: errors.array() }), the body of the
\* commented-out validation answers.
ErrorBody_Errors == {"errors"}

\* The keys of the body of a failure: res.status(code).json({ error: '...' })
ErrorBody == {"error"}

\* The record of the last request and its response: the request, what the
\* handler found, the status code, the top-level keys of the JSON body and
\* the user records embedded in it.
Blank == [op |-> "none", user |-> NULL, userRole |-> "NONE", code |-> 0, changed |-> FALSE,
          project |-> NULL, role |-> "NONE", existed |-> FALSE,
          target |-> NULL, reqRole |-> ABSENT,
          ticket |-> NULL, comment |-> NULL, body |-> NoBody,
          targetIsCreator |-> FALSE, targetHadRow |-> FALSE,
          wasAssignee |-> FALSE, wasAuthor |-> FALSE,
          label |-> NULL, labelsBefore |-> {}, listed |-> {},
          statusBefore |-> NULL, invalid |-> FALSE, targetActive |-> FALSE,
          ticketsBefore |-> <<>>, usersBefore |-> <<>>,
          keys |-> ErrorBody, userRecords |-> {}]

\* The ticket detail page before its ticket query has answered: the useState
\* initial values, no Save click and no save result yet.
NoClick == [statusChanged |-> FALSE, blank |-> FALSE, sent |-> FALSE]
NoSave == [put |-> 0, statusWritten |-> FALSE, post |-> 0]
NoForm == [pc |-> "loading", saving |-> FALSE, title |-> "", status |-> "OPEN",
           originalStatus |-> "OPEN", assignedTo |-> "", members |-> {},
           statusChangeComment |-> "", commentError |-> "",
           click |-> NoClick, saved |-> NoSave]

\* req.user.role, as authenticateToken read it from the user's row.
GlobalRoleOf(u) == IF u \in DOMAIN users THEN users[u].role ELSE "NONE"

\* res.status(code).json(...) after the database writes of the handler.
Respond(info, code) ==
    /\ last' = [info EXCEPT !.code = code, !.changed = (db' # db),
                            !.userRole = GlobalRoleOf(info.user)]
    /\ nreq' = nreq + 1
    /\ UNCHANGED <<inflight, page>>

\* The response body of a success: its top-level keys and the user records
\* the query results in it embed.
Body(info, keys, records) == [info EXCEPT !.keys = keys, !.userRecords = records]

\* The columns of a user row.  The model keeps role, firstName and password
\* in the table; the other columns never change and stand for themselves.
UserRow(u, row) ==
    [id |-> u, email |-> u, username |-> u, firstName |-> row.firstName,
     lastName |-> NULL, role |-> row.role, avatar |-> NULL,
     password |-> row.password, createdAt |-> NULL, updatedAt |-> NULL]

\* include: { user: true }: the whole row.
Select_Whole(row, fields) == row

\* select: { f: true, ... }: the row cut down to the selected columns.
Select(row, fields) == [f \in fields |-> row[f]]

\* user: { select: { id, username, firstName, lastName, avatar } }
MemberUserFields == {"id", "username", "firstName", "lastName", "avatar"}
\* the members of GET /projects/:id and the project-member search add role
DetailUserFields == MemberUserFields \cup {"role"}
\* creator: { select: { id, username, firstName, lastName } }
CreatorFields == {"id", "username", "firstName", "lastName"}
\* the select of the users router
ProfileFields == {"id", "email", "username", "firstName", "lastName", "role",
                  "avatar", "createdAt", "updatedAt"}

\* The records a relation include yields for the user ids U (a null or
\* dangling reference yields none).
Embed(U, fields) ==
    {Select(UserRow(x, users[x]), fields) : x \in U \cap DOMAIN users}

\* The user ids of the members of project p.
MembersOf(p) == {r.userId : r \in {x \in projectRoles : x.projectId = p}}

\* assignee: { select: ... }, creator: { select: ... } of a ticket row
TicketUsers(row) ==
    Embed({row.assignedTo}, MemberUserFields) \cup Embed({row.createdBy}, CreatorFields)

\* A Prisma write is one statement: when it throws, the rows it had already
\* removed or written are restored.
Rollback_Partial(before, partial) == partial

Rollback(before, partial) == before

\* An early return: a response with no write.
Reject(info, code) ==
    /\ UNCHANGED db
    /\ Respond(info, code)

\* authenticateToken with every credential passed on to the handler.
AuthenticateToken_Open(u) == "next"

\* jwt.verify(token, secret): the class of the error it throws, "none" when it
\* returns the decoded payload.
Verify(token) ==
    CASE token = ExpiredToken -> "TokenExpiredError"
      [] token = MalformedToken -> "JsonWebTokenError"
      [] OTHER -> "none"

\* error instanceof cls, with the class chain of the jsonwebtoken package:
\* TokenExpiredError.prototype = Object.create(JsonWebTokenError.prototype).
InstanceOf(error, cls) ==
    \/ error = cls
    \/ error = "TokenExpiredError" /\ cls = "JsonWebTokenError"

\* The catch block of authenticateToken: the JsonWebTokenError test comes
\* before the TokenExpiredError test.
Catch(error) ==
    IF InstanceOf(error, "JsonWebTokenError") THEN "403"
    ELSE IF InstanceOf(error, "TokenExpiredError") THEN "401"
    ELSE "500"

\* authenticateToken: a request without a token is answered 401, one whose
\* token fails jwt.verify is answered by the catch block, and one whose token
\* names a user that no longer exists is answered 401.
AuthenticateToken(u) ==
    IF u = NoToken THEN "401"
    ELSE IF Verify(u) # "none" THEN Catch(Verify(u))
    ELSE IF u \notin DOMAIN users THEN "401"
    ELSE "next"

\* The status code of a refusal by authenticateToken.
StatusOf(answer) ==
    CASE answer = "403" -> 403
      [] answer = "500" -> 500
      [] OTHER -> 401

\* requireProjectAccess(accessLevel): the body of the middleware is commented
\* out in the source; it calls next() for every request.
RequireProjectAccess(accessLevel, u, p) == "next"

\* requireRole(roles): likewise calls next() for every request.
RequireRole(roles, u) == "next"

----------------------------------------------------------------------------
(* Projects router *)

\* where: { members: { some: { userId: userId } } }
HasMember(p, u) == \E r \in projectRoles : r.projectId = p /\ r.userId = u

\* GET /projects
ListProjects(u) ==
    LET info == [Blank EXCEPT !.op = "listProjects", !.user = u]
    IN IF AuthenticateToken(u) # "next" THEN Reject(info, StatusOf(AuthenticateToken(u)))
       ELSE LET found == {p \in DOMAIN projects : HasMember(p, u)}
            IN Reject(Body([info EXCEPT !.listed = found], {"projects"},
                           UNION {Embed(MembersOf(p), MemberUserFields) : p \in found}),
                      200)

\* GET /projects/:id
GetProject(u, p) ==
    LET info == [Blank EXCEPT !.op = "getProject", !.user = u, !.project = p,
                              !.role = RoleOf(u, p), !.existed = p \in DOMAIN projects]
    IN IF AuthenticateToken(u) # "next" THEN Reject(info, StatusOf(AuthenticateToken(u)))
       ELSE IF RoleOf(u, p) = "NONE" THEN Reject(info, 403)
       ELSE IF p \notin DOMAIN projects THEN Reject(info, 404)
       ELSE Reject(Body(info, {"project"},
                        Embed(MembersOf(p), DetailUserFields)
                        \cup UNION {Embed({tickets[t].assignedTo, tickets[t].createdBy},
                                          CreatorFields) :
                                    t \in {x \in DOMAIN tickets : tickets[x].projectId = p}}),
                   200)

\* The length of a project name after trim().
NameLength(name) == IF name = EmptyName THEN 0 ELSE 2

\* validateProject: body('name').trim().isLength({ min: 1, max: 100 }).  The
\* routes mount it, but the validationResult check that would answer 400 is
\* commented out in both handlers, so its verdict is never read.
validateProject(name) == NameLength(name) \in 1..100

\* members: { create: { userId: userId, role: 'OWNER' } }
OwnerRow_Admin(u, id) == [userId |-> u, projectId |-> id, role |-> "ADMIN"]

OwnerRow(u, id) == [userId |-> u, projectId |-> id, role |-> "OWNER"]

\* POST /projects
CreateProject(u, name) ==
    /\ DOMAIN projects # ProjectIds
    /\ LET id == CHOOSE q \in ProjectIds \ DOMAIN projects : TRUE
           info == [Blank EXCEPT !.op = "createProject", !.user = u, !.project = id,
                                 !.invalid = ~validateProject(name)]
       IN IF AuthenticateToken(u) # "next" THEN Reject(info, StatusOf(AuthenticateToken(u)))
          ELSE /\ projects' = Put(projects, id, [createdBy |-> u, name |-> name])
               /\ projectRoles' = projectRoles \cup {OwnerRow(u, id)}
               /\ UNCHANGED <<users, tickets, comments>>
               /\ Respond(Body(info, {"message", "project"},
                               Embed({u}, MemberUserFields)), 201)

\* PUT /projects/:id
UpdateProject(u, p, name) ==
    LET info == [Blank EXCEPT !.op = "updateProject", !.user = u, !.project = p,
                              !.role = RoleOf(u, p), !.existed = p \in DOMAIN projects,
                              !.invalid = ~validateProject(name)]
    IN IF AuthenticateToken(u) # "next" THEN Reject(info, StatusOf(AuthenticateToken(u)))
       ELSE IF RequireProjectAccess("ADMIN", u, p) # "next" THEN Reject(info, 403)
       ELSE IF p \notin DOMAIN projects THEN Reject(info, 500)
       ELSE /\ projects' = [projects EXCEPT ![p].name = name]
            /\ UNCHANGED <<users, projectRoles, tickets, comments>>
            /\ Respond(Body(info, {"message", "project"},
                            Embed(MembersOf(p), MemberUserFields)), 200)

\* The rows that hang on a project: its roles, its tickets, their comments.
TicketsOf(p) == {t \in DOMAIN tickets : tickets[t].projectId = p}
CommentsOf(T) == {c \in DOMAIN comments : comments[c].ticketId \in T}

\* DELETE /projects/:id
DeleteProject(u, p, restrict) ==
    LET info == [Blank EXCEPT !.op = "deleteProject", !.user = u, !.project = p,
                              !.role = RoleOf(u, p), !.existed = p \in DOMAIN projects]
    IN IF AuthenticateToken(u) # "next" THEN Reject(info, StatusOf(AuthenticateToken(u)))
       ELSE IF RequireProjectAccess("OWNER", u, p) # "next" THEN Reject(info, 403)
       ELSE IF p \notin DOMAIN projects THEN Reject(info, 500)
       ELSE IF restrict /\ TicketsOf(p) # {}
            THEN /\ projectRoles' = Rollback(projectRoles,
                                             {r \in projectRoles : r.projectId # p})
                 /\ UNCHANGED <<users, projects, tickets, comments>>
                 /\ Respond(info, 500)
       ELSE /\ projects' = Drop(projects, {p})
            /\ projectRoles' = {r \in projectRoles : r.projectId # p}
            /\ tickets' = Drop(tickets, TicketsOf(p))
            /\ comments' = Drop(comments, CommentsOf(TicketsOf(p)))
            /\ UNCHANGED users
            /\ Respond(Body(info, {"message"}, {}), 200)

\* existingMember: the row findUnique returns for (userId, projectId).
AlreadyMember_OwnerOnly(target, p) == RoleOf(target, p) = "OWNER"

AlreadyMember(target, p) == RowsOf(target, p) # {}

\* The failures of prisma.projectRole.create: the unique index on
\* (userId, projectId), the foreign keys to the project and the user.
CreateRoleFails(target, p) ==
    \/ RowsOf(target, p) # {}
    \/ p \notin DOMAIN projects
    \/ target \notin DOMAIN users

\* POST /projects/:id/members
AddMember(u, p, target, role) ==
    LET info == [Blank EXCEPT !.op = "addMember", !.user = u, !.project = p,
                              !.role = RoleOf(u, p), !.existed = p \in DOMAIN projects,
                              !.target = target, !.reqRole = role,
                              !.targetHadRow = RowsOf(target, p) # {}]
    IN IF AuthenticateToken(u) # "next" THEN Reject(info, StatusOf(AuthenticateToken(u)))
       ELSE IF RequireProjectAccess("ADMIN", u, p) # "next" THEN Reject(info, 403)
       ELSE IF target \notin DOMAIN users THEN Reject(info, 404)
       ELSE IF AlreadyMember(target, p) THEN Reject(info, 400)
       ELSE IF CreateRoleFails(target, p) THEN Reject(info, 500)
       ELSE /\ projectRoles' = projectRoles \cup
                   {[userId |-> target, projectId |-> p, role |-> role]}
            /\ UNCHANGED <<users, projects, tickets, comments>>
            /\ Respond(Body(info, {"message", "member"},
                            Embed({target}, MemberUserFields)), 201)

\* project?.createdBy === userId
IsCreator_Never(p, target) == FALSE

IsCreator(p, target) == p \in DOMAIN projects /\ projects[p].createdBy = target

\* DELETE /projects/:id/members/:userId
RemoveMember(u, p, target) ==
    LET info == [Blank EXCEPT !.op = "removeMember", !.user = u, !.project = p,
                              !.role = RoleOf(u, p), !.existed = p \in DOMAIN projects,
                              !.target = target,
                              !.targetHadRow = RowsOf(target, p) # {},
                              !.targetIsCreator = (p \in DOMAIN projects
                                                   /\ projects[p].createdBy = target)]
    IN IF AuthenticateToken(u) # "next" THEN Reject(info, StatusOf(AuthenticateToken(u)))
       ELSE IF RequireProjectAccess("ADMIN", u, p) # "next" THEN Reject(info, 403)
       ELSE IF IsCreator(p, target) THEN Reject(info, 400)
       ELSE IF RowsOf(target, p) = {} THEN Reject(info, 500)
       ELSE /\ projectRoles' = projectRoles \ RowsOf(target, p)
            /\ UNCHANGED <<users, projects, tickets, comments>>
            /\ Respond(Body(info, {"message"}, {}), 200)

\* PUT /projects/:id/members/:userId
UpdateMemberRole(u, p, target, role) ==
    LET info == [Blank EXCEPT !.op = "updateMemberRole", !.user = u, !.project = p,
                              !.role = RoleOf(u, p), !.existed = p \in DOMAIN projects,
                              !.target = target, !.reqRole = role,
                              !.targetHadRow = RowsOf(target, p) # {},
                              !.targetIsCreator = (p \in DOMAIN projects
                                                   /\ projects[p].createdBy = target)]
    IN IF AuthenticateToken(u) # "next" THEN Reject(info, StatusOf(AuthenticateToken(u)))
       ELSE IF RequireProjectAccess("ADMIN", u, p) # "next" THEN Reject(info, 403)
       ELSE IF IsCreator(p, target) THEN Reject(info, 400)
       ELSE IF RowsOf(target, p) = {} THEN Reject(info, 500)
       ELSE /\ projectRoles' = (projectRoles \ RowsOf(target, p)) \cup
                   {[userId |-> target, projectId |-> p, role |-> role]}
            /\ UNCHANGED <<users, projects, tickets, comments>>
            /\ Respond(Body(info, {"message", "member"},
                            Embed({target}, MemberUserFields)), 200)

----------------------------------------------------------------------------
(* Tickets router *)

NoFilter == [status |-> ABSENT, assignedTo |-> ABSENT, search |-> ABSENT]

\* userProjects.map(p => p.projectId) with the userId condition left out.
UserProjects_All(u) == {r.projectId : r \in projectRoles}

\* prisma.projectRole.findMany({ where: { userId } }), mapped to project ids
UserProjects(u) == {r.projectId : r \in {x \in projectRoles : x.userId = u}}

\* The where clause of GET /tickets on one row.  Titles are one letter long,
\* so `contains` is equality; descriptions are not modelled.
Matches(row, projectIds, f) ==
    /\ row.projectId \in projectIds
    /\ f.status # ABSENT => row.status = f.status
    /\ f.assignedTo # ABSENT => row.assignedTo = f.assignedTo
    /\ f.search # ABSENT => row.title = f.search

\* GET /tickets?projectId=...  (p = ABSENT: no projectId filter); the page
\* asked for is the first, which holds every matching ticket.
ListTickets(u, p, f) ==
    LET info == [Blank EXCEPT !.op = "listTickets", !.user = u, !.project = p,
                              !.role = RoleOf(u, p), !.existed = p \in DOMAIN projects]
        projectIds == IF p # ABSENT THEN {p} ELSE UserProjects(u)
    IN IF AuthenticateToken(u) # "next" THEN Reject(info, StatusOf(AuthenticateToken(u)))
       ELSE IF p # ABSENT /\ RoleOf(u, p) = "NONE" THEN Reject(info, 403)
       ELSE LET found == {t \in DOMAIN tickets : Matches(tickets[t], projectIds, f)}
            IN Reject(Body([info EXCEPT !.listed = found], {"tickets", "pagination"},
                           UNION {TicketUsers(tickets[t]) : t \in found}),
                      200)

\* The project a ticket id resolves to (NULL when the ticket does not exist).
ProjectOfTicket(t) == IF t \in DOMAIN tickets THEN tickets[t].projectId ELSE NULL

TicketInfo(op, u, t) ==
    [Blank EXCEPT !.op = op, !.user = u, !.ticket = t,
                  !.existed = t \in DOMAIN tickets,
                  !.project = ProjectOfTicket(t),
                  !.role = RoleOf(u, ProjectOfTicket(t)),
                  !.wasAssignee = (t \in DOMAIN tickets /\ tickets[t].assignedTo = u),
                  !.statusBefore = IF t \in DOMAIN tickets THEN tickets[t].status ELSE NULL]

\* GET /tickets/:id
GetTicket(u, t) ==
    LET info == TicketInfo("getTicket", u, t)
    IN IF AuthenticateToken(u) # "next" THEN Reject(info, StatusOf(AuthenticateToken(u)))
       ELSE IF t \notin DOMAIN tickets THEN Reject(info, 404)
       ELSE IF RoleOf(u, tickets[t].projectId) = "NONE" THEN Reject(info, 403)
       ELSE Reject(Body(info, {"ticket"},
                        TicketUsers(tickets[t])
                        \cup Embed({comments[c].userId : c \in CommentsOf({t})},
                                   MemberUserFields)),
                   200)

\* POST /tickets  (assignedTo = ABSENT: the body has no assignedTo)
CreateTicket(u, p, assignedTo, title) ==
    /\ DOMAIN tickets # TicketIds
    /\ LET id == CHOOSE q \in TicketIds \ DOMAIN tickets : TRUE
           info == [Blank EXCEPT !.op = "createTicket", !.user = u, !.project = p,
                                 !.role = RoleOf(u, p), !.existed = p \in DOMAIN projects,
                                 !.ticket = id,
                                 !.body = [NoBody EXCEPT !.title = title,
                                                         !.assignedTo = assignedTo,
                                                         !.projectId = p]]
       IN IF AuthenticateToken(u) # "next" THEN Reject(info, StatusOf(AuthenticateToken(u)))
          ELSE IF RoleOf(u, p) = "NONE" THEN Reject(info, 403)
          ELSE IF assignedTo # ABSENT /\ assignedTo \notin DOMAIN users THEN Reject(info, 500)
          ELSE LET row == [projectId |-> p, createdBy |-> u, status |-> "OPEN",
                           title |-> title,
                           assignedTo |-> IF assignedTo = ABSENT THEN NULL ELSE assignedTo,
                           labels |-> {}]
               IN /\ tickets' = Put(tickets, id, row)
                  /\ UNCHANGED <<users, projects, projectRoles, comments>>
                  /\ Respond(Body(info, {"message", "ticket"}, TicketUsers(row)), 201)

\* prisma.ticket.update({ data: updateData }): the fields of the body replace
\* the columns of the row; a field the body does not carry is left alone.
ApplyUpdate(row, body) ==
    [f \in DOMAIN row |->
        IF f \in DOMAIN body /\ body[f] # ABSENT THEN body[f] ELSE row[f]]

\* The foreign keys of the updated row must point at existing rows.
ForeignKeysOk(body) ==
    /\ body.assignedTo \in DOMAIN users \cup {ABSENT, NULL}
    /\ body.createdBy \in DOMAIN users \cup {ABSENT}
    /\ body.projectId \in DOMAIN projects \cup {ABSENT}

\* The place of a status in the list of body('status').isIn([...]).
StatusRank(st) ==
    CASE st = "OPEN" -> 1
      [] st = "IN_PROGRESS" -> 2
      [] st = "REVIEW" -> 3
      [] st = "TESTING" -> 4
      [] st = "RESOLVED" -> 5
      [] st = "CLOSED" -> 6

\* The status guard with a forward-only rule added to it.
StatusChangeDenied_ForwardOnly(u, t, body) ==
    /\ body.status # ABSENT
    /\ \/ (RoleOf(u, tickets[t].projectId) = "VIEWER" /\ tickets[t].assignedTo # u)
       \/ StatusRank(body.status) < StatusRank(tickets[t].status)

\* updateData.status && projectAccess.role === 'VIEWER' &&
\* existingTicket.assignedTo !== userId
StatusChangeDenied_Member(u, t, body) ==
    /\ body.status # ABSENT
    /\ RoleOf(u, tickets[t].projectId) = "MEMBER"
    /\ tickets[t].assignedTo # u

StatusChangeDenied(u, t, body) ==
    /\ body.status # ABSENT
    /\ RoleOf(u, tickets[t].projectId) = "VIEWER"
    /\ tickets[t].assignedTo # u

\* PUT /tickets/:id
UpdateTicket(u, t, body) ==
    LET info == [TicketInfo("updateTicket", u, t) EXCEPT !.body = body,
                                                         !.ticketsBefore = tickets]
    IN IF AuthenticateToken(u) # "next" THEN Reject(info, StatusOf(AuthenticateToken(u)))
       ELSE IF t \notin DOMAIN tickets THEN Reject(info, 404)
       ELSE IF RoleOf(u, tickets[t].projectId) = "NONE" THEN Reject(info, 403)
       ELSE IF StatusChangeDenied(u, t, body) THEN Reject(info, 403)
       ELSE IF ~ForeignKeysOk(body) THEN Reject(info, 500)
       ELSE /\ tickets' = [tickets EXCEPT ![t] = ApplyUpdate(tickets[t], body)]
            /\ UNCHANGED <<users, projects, projectRoles, comments>>
            /\ Respond(Body(info, {"message", "ticket"},
                            TicketUsers(ApplyUpdate(tickets[t], body))), 200)

\* !projectAccess || (projectAccess.role !== 'ADMIN' && projectAccess.role !== 'OWNER')
DeleteTicketDenied_NoRoleOnly(u, t) ==
    RoleOf(u, tickets[t].projectId) = "NONE"

DeleteTicketDenied(u, t) ==
    RoleOf(u, tickets[t].projectId) \notin {"ADMIN", "OWNER"}

\* DELETE /tickets/:id
DeleteTicket(u, t, restrict) ==
    LET info == TicketInfo("deleteTicket", u, t)
    IN IF AuthenticateToken(u) # "next" THEN Reject(info, StatusOf(AuthenticateToken(u)))
       ELSE IF t \notin DOMAIN tickets THEN Reject(info, 404)
       ELSE IF DeleteTicketDenied(u, t) THEN Reject(info, 403)
       ELSE IF restrict /\ CommentsOf({t}) # {} THEN Reject(info, 500)
       ELSE /\ tickets' = Drop(tickets, {t})
            /\ comments' = Drop(comments, CommentsOf({t}))
            /\ UNCHANGED <<users, projects, projectRoles>>
            /\ Respond(Body(info, {"message"}, {}), 200)

LabelInfo(op, u, t, l) ==
    [TicketInfo(op, u, t) EXCEPT
        !.label = l,
        !.labelsBefore = IF t \in DOMAIN tickets THEN tickets[t].labels ELSE {}]

\* POST /tickets/:id/labels: labels: { connect: { id: labelId } }
AddLabel(u, t, l) ==
    LET info == LabelInfo("addLabel", u, t, l)
    IN IF AuthenticateToken(u) # "next" THEN Reject(info, StatusOf(AuthenticateToken(u)))
       ELSE IF t \notin DOMAIN tickets THEN Reject(info, 404)
       ELSE IF RoleOf(u, tickets[t].projectId) = "NONE" THEN Reject(info, 403)
       ELSE IF l \notin Labels THEN Reject(info, 404)
       ELSE /\ tickets' = [tickets EXCEPT ![t].labels = @ \cup {l}]
            /\ UNCHANGED <<users, projects, projectRoles, comments>>
            /\ Respond(Body(info, {"message"}, {}), 200)

\* labels: { disconnect: { id: labelId } } with every label taken off.
Disconnect_All(attached, l) == {}

\* labels: { disconnect: { id: labelId } }: the link between the ticket and
\* the label is removed if there is one.
Disconnect(attached, l) == attached \ {l}

\* DELETE /tickets/:id/labels/:labelId
RemoveLabel(u, t, l) ==
    LET info == LabelInfo("removeLabel", u, t, l)
    IN IF AuthenticateToken(u) # "next" THEN Reject(info, StatusOf(AuthenticateToken(u)))
       ELSE IF t \notin DOMAIN tickets THEN Reject(info, 404)
       ELSE IF RoleOf(u, tickets[t].projectId) = "NONE" THEN Reject(info, 403)
       ELSE /\ tickets' = [tickets EXCEPT ![t].labels = Disconnect(@, l)]
            /\ UNCHANGED <<users, projects, projectRoles, comments>>
            /\ Respond(Body(info, {"message"}, {}), 200)

----------------------------------------------------------------------------
(* Comments router *)

\* GET /comments/ticket/:ticketId
ListComments(u, t) ==
    LET info == TicketInfo("listComments", u, t)
    IN IF AuthenticateToken(u) # "next" THEN Reject(info, StatusOf(AuthenticateToken(u)))
       ELSE IF t \notin DOMAIN tickets THEN Reject(info, 404)
       ELSE IF RoleOf(u, tickets[t].projectId) = "NONE" THEN Reject(info, 403)
       ELSE Reject(Body(info, {"comments"},
                        Embed({comments[c].userId : c \in CommentsOf({t})},
                              MemberUserFields)),
                   200)

\* POST /comments
CreateComment(u, t, content) ==
    /\ DOMAIN comments # CommentIds
    /\ LET id == CHOOSE q \in CommentIds \ DOMAIN comments : TRUE
           info == [TicketInfo("createComment", u, t) EXCEPT !.comment = id]
       IN IF AuthenticateToken(u) # "next" THEN Reject(info, StatusOf(AuthenticateToken(u)))
          ELSE IF t \notin DOMAIN tickets THEN Reject(info, 404)
          ELSE IF RoleOf(u, tickets[t].projectId) = "NONE" THEN Reject(info, 403)
          ELSE /\ comments' = Put(comments, id,
                      [ticketId |-> t, userId |-> u, content |-> content])
               /\ UNCHANGED <<users, projects, projectRoles, tickets>>
               /\ Respond(Body(info, {"message", "comment"},
                               Embed({u}, MemberUserFields)), 201)

TicketOfComment(c) == IF c \in DOMAIN comments THEN comments[c].ticketId ELSE NULL

CommentInfo(op, u, c) ==
    [Blank EXCEPT !.op = op, !.user = u, !.comment = c,
                  !.existed = c \in DOMAIN comments,
                  !.ticket = TicketOfComment(c),
                  !.project = ProjectOfTicket(TicketOfComment(c)),
                  !.role = RoleOf(u, ProjectOfTicket(TicketOfComment(c))),
                  !.wasAuthor = (c \in DOMAIN comments /\ comments[c].userId = u)]

\* comment.userId !== userId && projectAccess.role !== 'ADMIN' &&
\* projectAccess.role !== 'OWNER'
CommentChangeDenied_ViewerOnly(u, c) ==
    /\ comments[c].userId # u
    /\ RoleOf(u, tickets[comments[c].ticketId].projectId) = "VIEWER"

CommentChangeDenied(u, c) ==
    /\ comments[c].userId # u
    /\ RoleOf(u, tickets[comments[c].ticketId].projectId) # "ADMIN"
    /\ RoleOf(u, tickets[comments[c].ticketId].projectId) # "OWNER"

\* PUT /comments/:id
UpdateComment(u, c, content) ==
    LET info == CommentInfo("updateComment", u, c)
    IN IF AuthenticateToken(u) # "next" THEN Reject(info, StatusOf(AuthenticateToken(u)))
       ELSE IF c \notin DOMAIN comments THEN Reject(info, 404)
       ELSE IF RoleOf(u, tickets[comments[c].ticketId].projectId) = "NONE"
            THEN Reject(info, 403)
       ELSE IF CommentChangeDenied(u, c) THEN Reject(info, 403)
       ELSE /\ comments' = [comments EXCEPT ![c].content = content]
            /\ UNCHANGED <<users, projects, projectRoles, tickets>>
            /\ Respond(Body(info, {"message", "comment"},
                            Embed({comments[c].userId}, MemberUserFields)), 200)

\* DELETE /comments/:id
DeleteComment(u, c) ==
    LET info == CommentInfo("deleteComment", u, c)
    IN IF AuthenticateToken(u) # "next" THEN Reject(info, StatusOf(AuthenticateToken(u)))
       ELSE IF c \notin DOMAIN comments THEN Reject(info, 404)
       ELSE IF RoleOf(u, tickets[comments[c].ticketId].projectId) = "NONE"
            THEN Reject(info, 403)
       ELSE IF CommentChangeDenied(u, c) THEN Reject(info, 403)
       ELSE /\ comments' = Drop(comments, {c})
            /\ UNCHANGED <<users, projects, projectRoles, tickets>>
            /\ Respond(Body(info, {"message"}, {}), 200)

----------------------------------------------------------------------------
(* Users router *)

NoUserBody == [role |-> ABSENT, firstName |-> ABSENT, password |-> ABSENT]

\* GET /users
ListUsers(u) ==
    LET info == [Blank EXCEPT !.op = "listUsers", !.user = u]
    IN IF AuthenticateToken(u) # "next" THEN Reject(info, StatusOf(AuthenticateToken(u)))
       ELSE Reject(Body(info, {"users", "pagination"}, Embed(DOMAIN users, ProfileFields)),
                   200)

\* GET /users/:id
GetUser(u, target) ==
    LET info == [Blank EXCEPT !.op = "getUser", !.user = u, !.target = target,
                              !.existed = target \in DOMAIN users]
    IN IF AuthenticateToken(u) # "next" THEN Reject(info, StatusOf(AuthenticateToken(u)))
       ELSE IF target # u /\ GlobalRoleOf(u) \notin {"ADMIN", "MANAGER"}
            THEN Reject(info, 403)
       ELSE IF target \notin DOMAIN users THEN Reject(info, 404)
       ELSE Reject(Body(info, {"user"}, Embed({target}, ProfileFields)), 200)

\* PUT /users/:id: prisma.user.update({ data: req.body })
UpdateUser(u, target, body) ==
    LET info == [Blank EXCEPT !.op = "updateUser", !.user = u, !.target = target,
                              !.existed = target \in DOMAIN users, !.body = body,
                              !.usersBefore = users]
    IN IF AuthenticateToken(u) # "next" THEN Reject(info, StatusOf(AuthenticateToken(u)))
       ELSE IF target # u /\ GlobalRoleOf(u) # "ADMIN" THEN Reject(info, 403)
       ELSE IF target \notin DOMAIN users THEN Reject(info, 500)
       ELSE LET row == ApplyUpdate(users[target], body)
            IN /\ users' = [users EXCEPT ![target] = row]
               /\ UNCHANGED <<projects, projectRoles, tickets, comments>>
               /\ Respond(Body(info, {"message", "user"},
                               {Select(UserRow(target, row), ProfileFields)}), 200)

\* PUT /users/:id/role
UpdateUserRole(u, target, role) ==
    LET info == [Blank EXCEPT !.op = "updateUserRole", !.user = u, !.target = target,
                              !.existed = target \in DOMAIN users, !.reqRole = role]
    IN IF AuthenticateToken(u) # "next" THEN Reject(info, StatusOf(AuthenticateToken(u)))
       ELSE IF RequireRole({"ADMIN"}, u) # "next" THEN Reject(info, 403)
       ELSE IF target = u THEN Reject(info, 400)
       ELSE IF target \notin DOMAIN users THEN Reject(info, 500)
       ELSE LET row == [users[target] EXCEPT !.role = role]
            IN /\ users' = [users EXCEPT ![target] = row]
               /\ UNCHANGED <<projects, projectRoles, tickets, comments>>
               /\ Respond(Body(info, {"message", "user"},
                               {Select(UserRow(target, row), ProfileFields)}), 200)

\* The activity check with the ticket counts alone.
NoActivity_TicketsOnly(target) ==
    /\ {t \in DOMAIN tickets : tickets[t].assignedTo = target} = {}
    /\ {t \in DOMAIN tickets : tickets[t].createdBy = target} = {}

\* _count: { assignedTickets, createdTickets, projectRoles } all zero
NoActivity(target) ==
    /\ {t \in DOMAIN tickets : tickets[t].assignedTo = target} = {}
    /\ {t \in DOMAIN tickets : tickets[t].createdBy = target} = {}
    /\ {r \in projectRoles : r.userId = target} = {}

\* DELETE /users/:id
DeleteUser(u, target, restrict) ==
    LET info == [Blank EXCEPT !.op = "deleteUser", !.user = u, !.target = target,
                              !.existed = target \in DOMAIN users,
                              !.targetActive =
                                  \/ \E t \in DOMAIN tickets :
                                        target \in {tickets[t].assignedTo, tickets[t].createdBy}
                                  \/ \E r \in projectRoles : r.userId = target]
        written == {c \in DOMAIN comments : comments[c].userId = target}
    IN IF AuthenticateToken(u) # "next" THEN Reject(info, StatusOf(AuthenticateToken(u)))
       ELSE IF RequireRole({"ADMIN"}, u) # "next" THEN Reject(info, 403)
       ELSE IF target = u THEN Reject(info, 400)
       ELSE IF target \notin DOMAIN users THEN Reject(info, 404)
       ELSE IF ~NoActivity(target) THEN Reject(info, 400)
       ELSE IF restrict /\ written # {} THEN Reject(info, 500)
       ELSE /\ users' = Drop(users, {target})
            /\ comments' = Drop(comments, written)
            /\ UNCHANGED <<projects, projectRoles, tickets>>
            /\ Respond(Body(info, {"message"}, {}), 200)

----------------------------------------------------------------------------
(* Pagination of the list endpoints (GET /tickets, GET /users) *)

\* Largest number of rows matching a list query, largest page and largest
\* in-range limit a query asks for.
MaxTotal == 15
MaxPage == 3
MaxLimit == 10

\* query('limit').optional().isInt({ min: 1, max: 100 })
LimitFloor == 1
LimitCap == 100
\* const { ..., page = 1, limit = 20 } = req.query
DefaultPage == 1
DefaultLimit == 20

\* The verdict of the limit validator of GET /tickets.  The handler never
\* reads it (the validationResult check is commented out); GET /users has no
\* validator at all.
LimitInRange(l) == l = <<>> \/ l[1] \in LimitFloor..LimitCap

\* A query parameter is <<>> when the query string does not carry it and
\* <<n>> when it carries the number n.  The limits a query carries: none, the
\* in-range ones, zero and one above the validator's maximum.
QueryLimits == {<<>>} \cup {<<n>> : n \in (0..MaxLimit) \cup {LimitCap + 1}}
QueryPages == {<<>>} \cup {<<n>> : n \in 1..MaxPage}

NoResponse == [endpoint |-> NULL, skip |-> 0, take |-> 0, items |-> <<>>,
               pagination |-> [page |-> 0, limit |-> 0, total |-> 0, pages |-> 0]]

\* A list query over `total` matching rows, and its response once answered.
NoPage == [total |-> 0, query |-> [page |-> <<>>, limit |-> <<>>],
           answered |-> FALSE, response |-> NoResponse]

Min(a, b) == IF a < b THEN a ELSE b
Max(a, b) == IF a > b THEN a ELSE b

\* findMany({ where, orderBy, skip, take }) over the matching rows in their
\* order.
FindMany(rows, skip, take) == SubSeq(rows, skip + 1, Min(skip + take, Len(rows)))

\* const skip = (Number(page) - 1) * Number(limit)
Skip_PageTimesLimit(p, l) == p * l

Skip(p, l) == (p - 1) * l

\* Math.ceil(total / Number(limit)) as the JSON body carries it: a division
\* by zero gives Infinity or NaN, which JSON.stringify writes as null.
Pages(total, l) ==
    IF l = 0 THEN NULL
    ELSE IF total % l = 0 THEN total \div l ELSE (total \div l) + 1

\* The handler of GET /tickets or GET /users from the destructuring of
\* req.query to res.json, over the rows that match the where clause.
ListPage(endpoint) ==
    /\ ~page.answered
    /\ LET p == IF page.query.page = <<>> THEN DefaultPage ELSE page.query.page[1]
           l == IF page.query.limit = <<>> THEN DefaultLimit ELSE page.query.limit[1]
           rows == [i \in 1..page.total |-> i]
           skip == Skip(p, l)
       IN page' = [page EXCEPT
                     !.answered = TRUE,
                     !.response = [endpoint |-> endpoint, skip |-> skip, take |-> l,
                                   items |-> FindMany(rows, skip, l),
                                   pagination |-> [page |-> p, limit |-> l,
                                                   total |-> Len(rows),
                                                   pages |-> Pages(Len(rows), l)]]]
    /\ UNCHANGED <<db, last, nreq, inflight, form>>

----------------------------------------------------------------------------
(* Requests and initial states *)

\* The bodies of PUT /tickets/:id: at most one column each, over the columns
\* of the ticket row (the handler passes req.body to Prisma as it is).
TicketBodies ==
    {[NoBody EXCEPT !.title = v] : v \in Titles}
    \cup {[NoBody EXCEPT !.status = v] : v \in TicketStatuses}
    \cup {[NoBody EXCEPT !.assignedTo = v] : v \in Users \cup {NULL}}
    \cup {[NoBody EXCEPT !.projectId = v] : v \in ProjectIds}
    \cup {[NoBody EXCEPT !.createdBy = v] : v \in Users}

\* The bodies of PUT /users/:id: one column of the user row each.
UserBodies ==
    {[NoUserBody EXCEPT !.firstName = "f1"], [NoUserBody EXCEPT !.role = "ADMIN"],
     [NoUserBody EXCEPT !.password = "h2"]}

\* The status, assignedTo and search filters of GET /tickets, alone and
\* together.
TicketFilters ==
    {NoFilter,
     [NoFilter EXCEPT !.status = "OPEN"],
     [NoFilter EXCEPT !.assignedTo = "u2"],
     [NoFilter EXCEPT !.search = "b"],
     [status |-> "OPEN", assignedTo |-> "u2", search |-> "b"]}

EmptyTable == [x \in {} |-> x]

\* Databases that requests build on the empty one: project p1 of u1, u2
\* added to it with role r2 (or not added), a ticket of u1 in p1 and a comment
\* on it, and (own2) a project p2 of u2.
SeedRoles(r2, own2) ==
    {[userId |-> "u1", projectId |-> "p1", role |-> "OWNER"]}
    \cup (IF r2 = "NONE" THEN {}
          ELSE {[userId |-> "u2", projectId |-> "p1", role |-> r2]})
    \cup (IF own2 THEN {[userId |-> "u2", projectId |-> "p2", role |-> "OWNER"]}
          ELSE {})

SeedProjects(own2) ==
    [p \in (IF own2 THEN {"p1", "p2"} ELSE {"p1"}) |->
        IF p = "p1" THEN [createdBy |-> "u1", name |-> "n2"]
        ELSE [createdBy |-> "u2", name |-> "n2"]]

\* The registered accounts: u1 is an administrator, the others developers.
SeedUsers ==
    [u \in Users |-> [role |-> IF u = "u1" THEN "ADMIN" ELSE "DEVELOPER",
                      firstName |-> "f2", password |-> "h1"]]

Init ==
    /\ users = SeedUsers
    /\ last = Blank
    /\ nreq = 0
    /\ inflight = <<>>
    /\ page = NoPage
    /\ form = NoForm
    /\ \/ /\ projects = EmptyTable
          /\ projectRoles = {}
          /\ tickets = EmptyTable
          /\ comments = EmptyTable
       \/ \E r2 \in {"NONE", "ADMIN", "MEMBER", "VIEWER"}, a \in {NULL, "u2"},
             w \in {"u1", "u2"}, own2 \in BOOLEAN :
          /\ r2 = "NONE" => (a = NULL /\ w = "u1")
          /\ projects = SeedProjects(own2)
          /\ projectRoles = SeedRoles(r2, own2)
          /\ tickets = [t \in {"t1"} |->
                 [projectId |-> "p1", createdBy |-> "u1", status |-> "OPEN",
                  title |-> "b", assignedTo |-> a, labels |-> {"l1"}]]
          /\ comments = [c \in {"c1"} |->
                 [ticketId |-> "t1", userId |-> w, content |-> "y"]]

\* One more request is handled.  A request that wrote nothing leaves the
\* database as it found it, so what follows it is what follows its
\* predecessor: a run is followed up to its first request without a write.
CanHandle == nreq < MaxRequests /\ (nreq = 0 \/ last.changed)

Next ==
    \/ CanHandle /\ UNCHANGED form /\ \E u \in Credentials : ListProjects(u)
    \/ CanHandle /\ UNCHANGED form /\ \E u \in Credentials, p \in ProjectIds : GetProject(u, p)
    \/ CanHandle /\ UNCHANGED form /\ \E u \in Credentials, n \in Names \cup {EmptyName} : CreateProject(u, n)
    \/ CanHandle /\ UNCHANGED form /\ \E u \in Credentials, p \in ProjectIds, n \in Names \cup {EmptyName} :
                       UpdateProject(u, p, n)
    \/ CanHandle /\ UNCHANGED form /\ \E u \in Credentials, p \in ProjectIds, c \in BOOLEAN : DeleteProject(u, p, c)
    \/ CanHandle /\ UNCHANGED form /\ \E u \in Credentials, p \in ProjectIds, t \in Users, r \in ProjectRoleValues :
                       AddMember(u, p, t, r)
    \/ CanHandle /\ UNCHANGED form /\ \E u \in Credentials, p \in ProjectIds, t \in Users : RemoveMember(u, p, t)
    \/ CanHandle /\ UNCHANGED form /\ \E u \in Credentials, p \in ProjectIds, t \in Users, r \in ProjectRoleValues :
                       UpdateMemberRole(u, p, t, r)
    \/ CanHandle /\ UNCHANGED form /\ \E u \in Credentials, p \in ProjectIds \cup {ABSENT}, f \in TicketFilters :
                       ListTickets(u, p, f)
    \/ CanHandle /\ UNCHANGED form /\ \E u \in Credentials, t \in TicketIds : GetTicket(u, t)
    \/ CanHandle /\ UNCHANGED form /\ \E u \in Credentials, p \in ProjectIds, a \in Users \cup {ABSENT}, ti \in Titles :
                       CreateTicket(u, p, a, ti)
    \/ CanHandle /\ UNCHANGED form /\ \E u \in Credentials, t \in TicketIds, b \in TicketBodies : UpdateTicket(u, t, b)
    \/ CanHandle /\ UNCHANGED form /\ \E u \in Credentials, t \in TicketIds, c \in BOOLEAN : DeleteTicket(u, t, c)
    \/ CanHandle /\ UNCHANGED form /\ \E u \in Credentials, t \in TicketIds, l \in LabelIds : AddLabel(u, t, l)
    \/ CanHandle /\ UNCHANGED form /\ \E u \in Credentials, t \in TicketIds, l \in LabelIds : RemoveLabel(u, t, l)
    \/ CanHandle /\ UNCHANGED form /\ \E u \in Credentials, t \in TicketIds : ListComments(u, t)
    \/ CanHandle /\ UNCHANGED form /\ \E u \in Credentials, t \in TicketIds, co \in Contents : CreateComment(u, t, co)
    \/ CanHandle /\ UNCHANGED form /\ \E u \in Credentials, c \in CommentIds, co \in Contents : UpdateComment(u, c, co)
    \/ CanHandle /\ UNCHANGED form /\ \E u \in Credentials, c \in CommentIds : DeleteComment(u, c)
    \/ CanHandle /\ UNCHANGED form /\ \E u \in Credentials : ListUsers(u)
    \/ CanHandle /\ UNCHANGED form /\ \E u \in Credentials, t \in Users : GetUser(u, t)
    \/ CanHandle /\ UNCHANGED form /\ \E u \in Credentials, t \in Users, b \in UserBodies : UpdateUser(u, t, b)
    \/ CanHandle /\ UNCHANGED form /\ \E u \in Credentials, t \in Users, r \in GlobalRoles :
                       UpdateUserRole(u, t, r)
    \/ CanHandle /\ UNCHANGED form /\ \E u \in Credentials, t \in Users, c \in BOOLEAN : DeleteUser(u, t, c)

Spec == Init /\ [][Next]_vars

----------------------------------------------------------------------------
(* POST /projects/:id/members, one step per await, for requests in flight *)

ReqIds == {"r1", "r2"}

\* The add-member requests that run concurrently.
ConcActors == {"u1", "u2"}
ConcProjects == {"p1"}
ConcTargets == {"u2", "u3"}
ConcRoles == {"MEMBER", "VIEWER"}

Done(r) == r \in DOMAIN inflight /\ inflight[r].pc = "done"

Goto(r, pc) ==
    /\ inflight' = [inflight EXCEPT ![r].pc = pc]
    /\ UNCHANGED <<db, last, nreq, page, form>>

Finish(r, code) ==
    /\ inflight' = [inflight EXCEPT ![r].pc = "done", ![r].code = code]
    /\ UNCHANGED <<last, nreq, page, form>>

\* The request arrives.
AddMemberReceive(r, u, p, target, role) ==
    /\ r \notin DOMAIN inflight
    /\ inflight' = Put(inflight, r, [user |-> u, project |-> p, target |-> target,
                                     role |-> role, pc |-> "auth", code |-> 0])
    /\ UNCHANGED <<db, last, nreq, page, form>>

\* await prisma.user.findUnique (authenticateToken), then requireProjectAccess
AddMemberAuth(r) ==
    /\ r \in DOMAIN inflight /\ inflight[r].pc = "auth"
    /\ LET q == inflight[r]
       IN IF AuthenticateToken(q.user) # "next"
          THEN UNCHANGED db /\ Finish(r, StatusOf(AuthenticateToken(q.user)))
          ELSE IF RequireProjectAccess("ADMIN", q.user, q.project) # "next"
          THEN UNCHANGED db /\ Finish(r, 403)
          ELSE Goto(r, "findUser")

\* await prisma.user.findUnique({ where: { id: userId } })
AddMemberFindUser(r) ==
    /\ r \in DOMAIN inflight /\ inflight[r].pc = "findUser"
    /\ IF inflight[r].target \notin DOMAIN users
       THEN UNCHANGED db /\ Finish(r, 404)
       ELSE Goto(r, "findMember")

\* await prisma.projectRole.findUnique(...)
AddMemberFindMember(r) ==
    /\ r \in DOMAIN inflight /\ inflight[r].pc = "findMember"
    /\ IF AlreadyMember(inflight[r].target, inflight[r].project)
       THEN UNCHANGED db /\ Finish(r, 400)
       ELSE Goto(r, "create")

\* await prisma.projectRole.create(...); a rejected insert lands in the catch
\* block of the handler.
AddMemberCreate(r) ==
    /\ r \in DOMAIN inflight /\ inflight[r].pc = "create"
    /\ LET q == inflight[r]
       IN IF CreateRoleFails(q.target, q.project)
          THEN UNCHANGED db /\ Finish(r, 500)
          ELSE /\ projectRoles' = projectRoles \cup
                      {[userId |-> q.target, projectId |-> q.project, role |-> q.role]}
               /\ UNCHANGED <<users, projects, tickets, comments>>
               /\ Finish(r, 201)

NextConc ==
    \/ \E r \in ReqIds, u \in ConcActors, p \in ConcProjects, t \in ConcTargets,
          ro \in ConcRoles : AddMemberReceive(r, u, p, t, ro)
    \/ \E r \in ReqIds : AddMemberAuth(r)
    \/ \E r \in ReqIds : AddMemberFindUser(r)
    \/ \E r \in ReqIds : AddMemberFindMember(r)
    \/ \E r \in ReqIds : AddMemberCreate(r)

SpecConc == Init /\ [][NextConc]_vars

----------------------------------------------------------------------------
(* The list endpoints over every query and every number of matching rows *)

InitPage ==
    /\ users = SeedUsers
    /\ projects = EmptyTable
    /\ projectRoles = {}
    /\ tickets = EmptyTable
    /\ comments = EmptyTable
    /\ last = Blank
    /\ nreq = 0
    /\ inflight = <<>>
    /\ form = NoForm
    /\ \E T \in 0..MaxTotal, p \in QueryPages, l \in QueryLimits :
          page = [NoPage EXCEPT !.total = T, !.query = [page |-> p, limit |-> l]]

NextPage ==
    \/ ListPage("tickets")
    \/ ListPage("users")

SpecPage == InitPage /\ [][NextPage]_vars

----------------------------------------------------------------------------
(* PUT /tickets/:id and DELETE /tickets/:id split at their awaits, with the *)
(* project's owner removing or demoting the requester meanwhile             *)

\* Number of member requests the owner sends meanwhile.
MaxRaceRequests == 1

RaceActor == "u2"
RaceTicket == "t1"
RaceBodies == {[NoBody EXCEPT !.status = "IN_PROGRESS"], [NoBody EXCEPT !.title = "a"]}

\* The request arrives: op is "updateTicket" or "deleteTicket".
TicketReceive(r, op, body) ==
    /\ r \notin DOMAIN inflight
    /\ inflight' = Put(inflight, r,
           [op |-> op, user |-> RaceActor, ticket |-> RaceTicket, body |-> body,
            pc |-> "auth", code |-> 0, existingTicket |-> NULL,
            projectAccess |-> "NONE", permittedAtWrite |-> FALSE])
    /\ UNCHANGED <<db, last, nreq, page, form>>

\* await prisma.user.findUnique (authenticateToken)
TicketAuth(r) ==
    /\ r \in DOMAIN inflight /\ inflight[r].pc = "auth"
    /\ IF AuthenticateToken(inflight[r].user) # "next"
       THEN UNCHANGED db /\ Finish(r, StatusOf(AuthenticateToken(inflight[r].user)))
       ELSE Goto(r, "findTicket")

\* const existingTicket = await prisma.ticket.findUnique(...)
TicketFindTicket(r) ==
    /\ r \in DOMAIN inflight /\ inflight[r].pc = "findTicket"
    /\ IF inflight[r].ticket \notin DOMAIN tickets
       THEN UNCHANGED db /\ Finish(r, 404)
       ELSE /\ inflight' = [inflight EXCEPT ![r].pc = "findRole",
                                ![r].existingTicket = tickets[inflight[r].ticket]]
            /\ UNCHANGED <<db, last, nreq, page, form>>

\* const projectAccess = await prisma.projectRole.findUnique(...) and the
\* tests on it that precede the write.
TicketFindRole(r) ==
    /\ r \in DOMAIN inflight /\ inflight[r].pc = "findRole"
    /\ LET q == inflight[r]
           role == RoleOf(q.user, q.existingTicket.projectId)
           denied ==
              IF q.op = "updateTicket"
              THEN \/ role = "NONE"
                   \/ /\ q.body.status # ABSENT
                      /\ role = "VIEWER"
                      /\ q.existingTicket.assignedTo # q.user
              ELSE role \notin {"ADMIN", "OWNER"}
       IN IF denied
          THEN UNCHANGED db /\ Finish(r, 403)
          ELSE /\ inflight' = [inflight EXCEPT ![r].pc = "write",
                                               ![r].projectAccess = role]
               /\ UNCHANGED <<db, last, nreq, page, form>>

\* await prisma.ticket.update(...) / await prisma.ticket.delete(...);
\* permittedAtWrite records whether the tests would pass on the rows as they
\* are when the write is made.
TicketWrite(r) ==
    /\ r \in DOMAIN inflight /\ inflight[r].pc = "write"
    /\ LET q == inflight[r]
           t == q.ticket
       IN IF t \notin DOMAIN tickets \/ ~ForeignKeysOk(q.body)
          THEN UNCHANGED db /\ Finish(r, 500)
          ELSE /\ IF q.op = "updateTicket"
                  THEN /\ tickets' = [tickets EXCEPT ![t] = ApplyUpdate(tickets[t], q.body)]
                       /\ UNCHANGED comments
                  ELSE /\ tickets' = Drop(tickets, {t})
                       /\ comments' = Drop(comments, CommentsOf({t}))
               /\ UNCHANGED <<users, projects, projectRoles>>
               /\ inflight' = [inflight EXCEPT
                     ![r].pc = "done", ![r].code = 200,
                     ![r].permittedAtWrite =
                        IF q.op = "updateTicket"
                        THEN /\ RoleOf(q.user, tickets[t].projectId) # "NONE"
                             /\ ~StatusChangeDenied(q.user, t, q.body)
                        ELSE ~DeleteTicketDenied(q.user, t)]
               /\ UNCHANGED <<last, nreq, page, form>>

\* DELETE /projects/:id/members/:userId by the owner, for the requester.
OwnerRemoves ==
    /\ nreq < MaxRaceRequests
    /\ UNCHANGED form
    /\ RemoveMember("u1", "p1", RaceActor)

\* PUT /projects/:id/members/:userId by the owner: the requester becomes VIEWER.
OwnerDemotes ==
    /\ nreq < MaxRaceRequests
    /\ UNCHANGED form
    /\ UpdateMemberRole("u1", "p1", RaceActor, "VIEWER")

InitRace ==
    /\ users = SeedUsers
    /\ projects = SeedProjects(FALSE)
    /\ last = Blank
    /\ nreq = 0
    /\ inflight = <<>>
    /\ page = NoPage
    /\ form = NoForm
    /\ \E r2 \in {"ADMIN", "MEMBER", "VIEWER"}, a \in {NULL, "u2"} :
          /\ projectRoles = SeedRoles(r2, FALSE)
          /\ tickets = [t \in {RaceTicket} |->
                 [projectId |-> "p1", createdBy |-> "u1", status |-> "OPEN",
                  title |-> "b", assignedTo |-> a, labels |-> {}]]
          /\ comments = [c \in {"c1"} |->
                 [ticketId |-> RaceTicket, userId |-> "u1", content |-> "y"]]

NextRace ==
    \/ \E r \in ReqIds, b \in RaceBodies : TicketReceive(r, "updateTicket", b)
    \/ \E r \in ReqIds : TicketReceive(r, "deleteTicket", NoBody)
    \/ \E r \in ReqIds : TicketAuth(r)
    \/ \E r \in ReqIds : TicketFindTicket(r)
    \/ \E r \in ReqIds : TicketFindRole(r)
    \/ \E r \in ReqIds : TicketWrite(r)
    \/ OwnerRemoves
    \/ OwnerDemotes

SpecRace == InitRace /\ [][NextRace]_vars

----------------------------------------------------------------------------
(* The ticket detail page of one user, with the project's owner acting on   *)
(* the server meanwhile.  The fields are edited while no save is in flight. *)

\* Requests the server handles in a run of the page.
MaxFormRequests == 3

FormUser == "u2"
FormTicket == "t1"
\* The options of the status select that the page's user picks.
FormStatuses == {"OPEN", "IN_PROGRESS", "CLOSED"}
\* What the comment textarea holds: nothing, white space, a text.
FormComments == {"", " ", "x"}

\* statusChangeComment.trim()
Trim(s) == IF s = " " THEN "" ELSE s

\* const isClosed = status === 'CLOSED'
isClosed == form.status = "CLOSED"
\* const statusChanged = status !== originalStatus
statusChanged == form.status # form.originalStatus

\* disabled={isClosed} of the inputs, disabled={saving || isClosed} of Save
InputEnabled == ~isClosed
SaveEnabled == ~(form.saving \/ isClosed)

\* A change of a field; form.click is the Save click when it is the last
\* thing done on the page.
Edit(next) ==
    /\ form.pc = "editing"
    /\ form' = [next EXCEPT !.click = NoClick]
    /\ UNCHANGED <<db, last, nreq, inflight, page>>

\* useQuery(['ticket', id]) answers and the effect on `data` fills the
\* fields; GET /tickets/:id answers only a user with a role on the project.
FormLoad ==
    /\ form.pc = "loading"
    /\ IF /\ FormTicket \in DOMAIN tickets
          /\ FormUser \in DOMAIN users
          /\ RoleOf(FormUser, tickets[FormTicket].projectId) # "NONE"
       THEN LET data == tickets[FormTicket]
            IN form' = [form EXCEPT !.pc = "editing", !.title = data.title,
                                    !.status = data.status,
                                    !.originalStatus = data.status,
                                    !.assignedTo = IF data.assignedTo = NULL THEN ""
                                                   ELSE data.assignedTo,
                                    !.members = MembersOf(data.projectId)]
       ELSE form' = [form EXCEPT !.pc = "notFound"]
    /\ UNCHANGED <<db, last, nreq, inflight, page>>

\* onChange of the title input
SetTitle(v) == InputEnabled /\ Edit([form EXCEPT !.title = v])

\* onChange of the status select
SetStatus(v) == InputEnabled /\ Edit([form EXCEPT !.status = v])

\* onChange of the assignee select
SetAssignedTo(v) ==
    /\ InputEnabled
    /\ v \in form.members \cup {""}
    /\ Edit([form EXCEPT !.assignedTo = v])

\* onChange of the comment textarea, rendered when statusChanged && !isClosed
SetStatusChangeComment(v) ==
    /\ statusChanged /\ ~isClosed
    /\ Edit([form EXCEPT !.statusChangeComment = v, !.commentError = ""])

\* onClick of Save up to the first await: the comment test, setSaving(true).
SaveOnClick ==
    /\ SaveEnabled
    /\ LET blank == Trim(form.statusChangeComment) = ""
           click == [statusChanged |-> statusChanged, blank |-> blank, sent |-> FALSE]
       IN IF statusChanged /\ blank
          THEN /\ form.pc = "editing"
               /\ form' = [form EXCEPT !.commentError = "required", !.click = click]
               /\ UNCHANGED <<db, last, nreq, inflight, page>>
          ELSE /\ form.pc = "editing"
               /\ form' = [form EXCEPT !.saving = TRUE, !.pc = "put",
                                       !.click = [click EXCEPT !.sent = TRUE],
                                       !.saved = NoSave]
               /\ UNCHANGED <<db, last, nreq, inflight, page>>

\* await api.put(endpoints.tickets.update(id), { title, ..., status, assignedTo })
\* and what follows it: the comment request, the reload, or the catch.
SavePut ==
    /\ form.pc = "put"
    /\ nreq < MaxFormRequests
    /\ UpdateTicket(FormUser, FormTicket,
                    [NoBody EXCEPT !.title = form.title, !.status = form.status,
                                   !.assignedTo = IF form.assignedTo = "" THEN NULL
                                                  ELSE form.assignedTo])
    /\ form' = IF last'.code # 200
               THEN [form EXCEPT !.pc = "editing", !.saving = FALSE,
                                 !.saved = [NoSave EXCEPT !.put = last'.code]]
               ELSE [form EXCEPT
                        !.pc = IF statusChanged /\ Trim(form.statusChangeComment) # ""
                               THEN "post" ELSE "reload",
                        !.saved = [NoSave EXCEPT !.put = 200,
                                      !.statusWritten = (last'.statusBefore # form.status)]]

\* await api.post(endpoints.comments.create, { ticketId, content }) inside
\* try { } catch (_) { }: the reload follows whatever the answer.
SavePost ==
    /\ form.pc = "post"
    /\ nreq < MaxFormRequests
    /\ CreateComment(FormUser, FormTicket, Trim(form.statusChangeComment))
    /\ form' = [form EXCEPT !.pc = "reload", !.saved.post = last'.code]

\* window.location.reload(): the page starts over.
Reload ==
    /\ form.pc = "reload"
    /\ form' = NoForm
    /\ UNCHANGED <<db, last, nreq, inflight, page>>

\* DELETE /projects/:id/members/:userId by the project's owner, for the
\* user of the page.
OwnerRemovesMember ==
    /\ nreq < MaxFormRequests
    /\ UNCHANGED form
    /\ RemoveMember("u1", "p1", FormUser)

InitForm ==
    /\ users = SeedUsers
    /\ projects = SeedProjects(FALSE)
    /\ comments = EmptyTable
    /\ last = Blank
    /\ nreq = 0
    /\ inflight = <<>>
    /\ page = NoPage
    /\ form = NoForm
    /\ \E r2 \in {"ADMIN", "MEMBER", "VIEWER"}, a \in {NULL, "u2"}, st \in FormStatuses :
          /\ projectRoles = SeedRoles(r2, FALSE)
          /\ tickets = [t \in {FormTicket} |->
                 [projectId |-> "p1", createdBy |-> "u1", status |-> st,
                  title |-> "b", assignedTo |-> a, labels |-> {}]]

NextForm ==
    \/ FormLoad
    \/ \E v \in Titles : SetTitle(v)
    \/ \E v \in FormStatuses : SetStatus(v)
    \/ \E v \in Users \cup {""} : SetAssignedTo(v)
    \/ \E v \in FormComments : SetStatusChangeComment(v)
    \/ SaveOnClick
    \/ SavePut
    \/ SavePost
    \/ Reload
    \/ OwnerRemovesMember

SpecForm == InitForm /\ [][NextForm]_vars

----------------------------------------------------------------------------
(* Sequences of PUT /tickets/:id by a VIEWER who is not the assignee *)

\* Number of update requests the VIEWER sends.
MaxViewerRequests == 2

Viewer == "u2"

\* The bodies the VIEWER sends: one field, or assignedTo together with status.
ViewerBodies ==
    TicketBodies
    \cup {[NoBody EXCEPT !.assignedTo = Viewer, !.status = st] : st \in TicketStatuses}

\* Ticket t1 of project p1 is OPEN and unassigned or assigned to the owner;
\* the Viewer holds VIEWER on p1.
InitViewer ==
    /\ users = SeedUsers
    /\ projects = SeedProjects(FALSE)
    /\ projectRoles = SeedRoles("VIEWER", FALSE)
    /\ comments = EmptyTable
    /\ last = Blank
    /\ nreq = 0
    /\ inflight = <<>>
    /\ page = NoPage
    /\ form = NoForm
    /\ \E a \in {NULL, "u1"} :
          tickets = [t \in {"t1"} |->
                 [projectId |-> "p1", createdBy |-> "u1", status |-> "OPEN",
                  title |-> "b", assignedTo |-> a, labels |-> {}]]

NextViewer ==
    /\ nreq < MaxViewerRequests
    /\ UNCHANGED form
    /\ \E b \in ViewerBodies : UpdateTicket(Viewer, "t1", b)

SpecViewer == InitViewer /\ [][NextViewer]_vars

----------------------------------------------------------------------------
(* PUT /tickets/:id with a status, on a ticket in every status *)

InitStatus ==
    /\ users = SeedUsers
    /\ projects = SeedProjects(FALSE)
    /\ comments = EmptyTable
    /\ last = Blank
    /\ nreq = 0
    /\ inflight = <<>>
    /\ page = NoPage
    /\ form = NoForm
    /\ \E r2 \in {"ADMIN", "MEMBER", "VIEWER"}, a \in {NULL, "u2"}, st \in TicketStatuses :
          /\ projectRoles = SeedRoles(r2, FALSE)
          /\ tickets = [t \in {"t1"} |->
                 [projectId |-> "p1", createdBy |-> "u1", status |-> st,
                  title |-> "b", assignedTo |-> a, labels |-> {}]]

NextStatus ==
    CanHandle /\ UNCHANGED form
              /\ \E u \in {"u1", "u2"}, st \in TicketStatuses :
                    UpdateTicket(u, "t1", [NoBody EXCEPT !.status = st])

SpecStatus == InitStatus /\ [][NextStatus]_vars

----------------------------------------------------------------------------
(* Properties *)

Authenticated == last.user \in Users /\ last.code # 401

\* The operations that act on one project, addressed by the project itself,
\* by one of its tickets or by a comment on one of its tickets.
ProjectScopedOps ==
    {"getProject", "updateProject", "deleteProject",
     "addMember", "removeMember", "updateMemberRole",
     "listTickets", "getTicket", "createTicket", "updateTicket", "deleteTicket",
     "listComments", "createComment", "updateComment", "deleteComment"}

\* C1: a request of a user without a ProjectRole row on the project it
\* addresses is answered 403 and writes nothing.
C1_NoRoleIsDenied ==
    (/\ last.op \in ProjectScopedOps
     /\ Authenticated
     /\ last.existed
     /\ last.project # NULL
     /\ last.role = "NONE")
    => (last.code = 403 /\ ~last.changed)

\* The level each guarded project route passes to requireProjectAccess.
RequiredLevel(op) ==
    CASE op = "updateProject" -> "ADMIN"
      [] op = "deleteProject" -> "OWNER"
      [] op = "addMember" -> "ADMIN"
      [] op = "removeMember" -> "ADMIN"
      [] op = "updateMemberRole" -> "ADMIN"

GuardedOps ==
    {"updateProject", "deleteProject", "addMember", "removeMember", "updateMemberRole"}

\* C2: a guarded project route whose caller holds a role of rank below the
\* required level (a MEMBER or VIEWER updating, a non-OWNER deleting) is
\* answered 403 and writes nothing.
C2_RequiredLevelEnforced ==
    (/\ last.op \in GuardedOps
     /\ Authenticated
     /\ last.existed
     /\ last.role # "NONE"
     /\ accessLevels(last.role) < accessLevels(RequiredLevel(last.op)))
    => (last.code = 403 /\ ~last.changed)

\* C3: a remove-member or update-member-role request that targets the
\* project's creator is rejected with an error and writes nothing, and the
\* creator's row is still there.
C3_CreatorRowUntouched ==
    (last.op \in {"removeMember", "updateMemberRole"} /\ last.targetIsCreator)
    => /\ last.code \in {400, 401, 403}
       /\ Authenticated => last.code = 400
       /\ ~last.changed
       /\ RowsOf(last.target, last.project) # {}

C3_Witness ==
    /\ last.op \in {"removeMember", "updateMemberRole"}
    /\ last.targetIsCreator
    /\ last.role \in {"NONE", "ADMIN"}
    /\ last.code = 400

ReferencesExist(body) ==
    /\ body.assignedTo \in DOMAIN users \cup {ABSENT, NULL}
    /\ body.createdBy \in DOMAIN users \cup {ABSENT}
    /\ body.projectId \in DOMAIN projects \cup {ABSENT}

\* C5: a ticket update by a VIEWER who is not the assignee is answered 403
\* and writes nothing when it carries a status; when it carries no status
\* (and refers to existing rows) it is answered 200 and the row has the
\* fields of the body.
C5_ViewerCannotChangeStatus ==
    (/\ last.op = "updateTicket"
     /\ Authenticated
     /\ last.existed
     /\ last.role = "VIEWER"
     /\ ~last.wasAssignee)
    => IF last.body.status # ABSENT
       THEN last.code = 403 /\ ~last.changed
       ELSE ReferencesExist(last.body)
               => /\ last.code = 200
                  /\ last.ticket \in DOMAIN tickets
                  /\ \A f \in DOMAIN last.body :
                        last.body[f] # ABSENT => tickets[last.ticket][f] = last.body[f]

C5_Witness ==
    /\ last.op = "updateTicket"
    /\ last.role = "VIEWER"
    /\ ~last.wasAssignee
    /\ last.body.status # ABSENT
    /\ last.code = 403

\* C6: a comment update or delete is carried out only for the comment's
\* author or an ADMIN or OWNER of the project; another member of the project
\* is answered 403 and the comment is as it was.
C6_CommentAuthorOrAdmin ==
    (/\ last.op \in {"updateComment", "deleteComment"}
     /\ Authenticated
     /\ last.existed)
    => /\ (last.code = 200 \/ last.changed)
          => (last.wasAuthor \/ last.role \in {"ADMIN", "OWNER"})
       /\ (~last.wasAuthor /\ last.role \in {"MEMBER", "VIEWER"})
          => (last.code = 403 /\ ~last.changed /\ last.comment \in DOMAIN comments)

C6_Witness ==
    /\ last.op \in {"updateComment", "deleteComment"}
    /\ last.existed
    /\ ~last.wasAuthor
    /\ last.role = "MEMBER"
    /\ last.code = 403

\* C7: a ticket delete is carried out only for an ADMIN or OWNER of the
\* ticket's project; anyone else is answered 403 and the ticket still exists.
C7_TicketDeleteNeedsAdmin ==
    (/\ last.op = "deleteTicket"
     /\ Authenticated
     /\ last.existed)
    => /\ (last.code = 200 \/ last.changed) => last.role \in {"ADMIN", "OWNER"}
       /\ last.role \notin {"ADMIN", "OWNER"}
          => (last.code = 403 /\ ~last.changed /\ last.ticket \in DOMAIN tickets)

C7_Witness ==
    /\ last.op = "deleteTicket"
    /\ last.existed
    /\ last.role = "MEMBER"
    /\ last.code = 403
    /\ last.ticket \in DOMAIN tickets

\* C8: the assignee of every ticket holds a ProjectRole on the ticket's
\* project.
C8_AssigneeIsMember ==
    \A t \in DOMAIN tickets :
       tickets[t].assignedTo # NULL
          => RoleOf(tickets[t].assignedTo, tickets[t].projectId) # "NONE"

\* C9: an add-member request for a (user, project) pair that already has a
\* row is answered 400 and writes nothing, whatever role it asks for.
C9_DuplicateMemberRejected ==
    (last.op = "addMember" /\ Authenticated /\ last.targetHadRow)
    => /\ last.code = 400
       /\ ~last.changed
       /\ Cardinality(RowsOf(last.target, last.project)) = 1

C9_Witness ==
    /\ last.op = "addMember"
    /\ last.targetHadRow
    /\ last.reqRole # RoleOf(last.target, last.project)
    /\ last.code = 400

\* C10: of two finished add-member requests for the same (user, project),
\* one of which was answered 201, the other was answered 400, and the pair
\* has at most one row.
C10_RaceIsConflict ==
    \A a \in ReqIds, b \in ReqIds :
       (/\ a # b
        /\ Done(a) /\ Done(b)
        /\ inflight[a].target = inflight[b].target
        /\ inflight[a].project = inflight[b].project
        /\ inflight[a].code = 201)
       => /\ inflight[b].code = 400
          /\ Cardinality(RowsOf(inflight[a].target, inflight[a].project)) <= 1

\* C11: the ticket list over T matching tickets, asked for page p >= 1 with
\* limit l >= 1, skips (p - 1) * l rows and returns the next
\* min(l, max(0, T - (p - 1) * l)) of them, with total = T and
\* pages = ceil(T / l); 15 tickets, page 2, limit 10 give 5 tickets and
\* 2 pages.
C11_PageOfMatches ==
    LET r == page.response
        p == r.pagination.page
        l == r.pagination.limit
        T == page.total
    IN (page.answered /\ r.endpoint = "tickets" /\ p >= 1 /\ l >= 1)
       => /\ page.query.page # <<>> => p = page.query.page[1]
          /\ page.query.limit # <<>> => l = page.query.limit[1]
          /\ r.skip = (p - 1) * l
          /\ Len(r.items) = Min(l, Max(0, T - (p - 1) * l))
          /\ \A i \in 1..Len(r.items) : r.items[i] = (p - 1) * l + i
          /\ r.pagination.total = T
          /\ r.pagination.pages * l >= T
          /\ (r.pagination.pages - 1) * l < T
          /\ (T = 15 /\ p = 2 /\ l = 10)
                => (Len(r.items) = 5 /\ r.pagination.pages = 2)

C11_Witness ==
    /\ page.answered
    /\ page.response.endpoint = "tickets"
    /\ page.total = 15
    /\ page.query = [page |-> <<2>>, limit |-> <<10>>]
    /\ Len(page.response.items) = 5
    /\ page.response.pagination.pages = 2

\* C12: the limit a list endpoint (GET /tickets, GET /users) queries storage
\* with lies in [1, 100], and no list response carries more than 100 items.
C12_LimitBounded ==
    page.answered
       => /\ page.response.take \in LimitFloor..LimitCap
          /\ Len(page.response.items) <= LimitCap

\* C13: removing a label from a ticket by a user with a role on the ticket's
\* project is answered 200 and leaves the ticket with its labels minus that
\* one; when the label was not attached the label set is as it was, so a
\* repeated removal gives what one removal gives.
C13_RemoveLabelIdempotent ==
    (/\ last.op = "removeLabel"
     /\ Authenticated
     /\ last.existed
     /\ last.role # "NONE")
    => /\ last.code = 200
       /\ last.ticket \in DOMAIN tickets
       /\ tickets[last.ticket].labels = last.labelsBefore \ {last.label}
       /\ last.label \notin tickets[last.ticket].labels
       /\ last.label \notin last.labelsBefore
             => (~last.changed /\ tickets[last.ticket].labels = last.labelsBefore)

C13_Witness ==
    /\ last.op = "removeLabel"
    /\ last.role \in {"MEMBER", "VIEWER"}
    /\ last.labelsBefore # {}
    /\ last.label \notin last.labelsBefore
    /\ last.code = 200
    /\ tickets[last.ticket].labels = last.labelsBefore

\* C14: no user record embedded in a response of the project, ticket, comment
\* or user routes has a password field or carries a password; each is cut
\* down to columns the handler's select names.
C14_NoCredentialInResponse ==
    \A rec \in last.userRecords :
       /\ "password" \notin DOMAIN rec
       /\ DOMAIN rec \subseteq ProfileFields
       /\ \A f \in DOMAIN rec, x \in DOMAIN users : rec[f] # users[x].password

C14_Witness ==
    /\ last.op \in {"listUsers", "getUser", "updateUser", "getProject", "getTicket"}
    /\ last.code = 200
    /\ \E rec \in last.userRecords : rec.id \in DOMAIN users

C16_ListsScopedToRoles ==
    /\ (last.op = "listProjects" /\ Authenticated)
          => /\ last.code = 200
             /\ last.listed = {p \in DOMAIN projects : RoleOf(last.user, p) # "NONE"}
    /\ (last.op = "listTickets" /\ last.code = 200)
          => \A t \in last.listed :
                /\ t \in DOMAIN tickets
                /\ RoleOf(last.user, tickets[t].projectId) # "NONE"
    /\ last.code # 200 => last.listed = {}

C16_Witness ==
    /\ last.op = "listTickets"
    /\ last.project = ABSENT
    /\ last.code = 200
    /\ last.listed = {}
    /\ \E t \in DOMAIN tickets : RoleOf(last.user, tickets[t].projectId) = "NONE"

\* C17: for every pair of statuses (s, s'), backward ones included, an
\* update of a ticket in status s that carries status s', sent by a member
\* of the project who is not a VIEWER or is the ticket's assignee, is
\* answered 200 and leaves the ticket in status s'.
C17_AnyStatusTransition ==
    (/\ last.op = "updateTicket"
     /\ Authenticated
     /\ last.existed
     /\ last.body.status \in TicketStatuses
     /\ last.statusBefore \in TicketStatuses
     /\ ReferencesExist(last.body)
     /\ \/ last.role \in {"OWNER", "ADMIN", "MEMBER"}
        \/ (last.role = "VIEWER" /\ last.wasAssignee))
    => /\ last.code = 200
       /\ last.ticket \in DOMAIN tickets
       /\ tickets[last.ticket].status = last.body.status

C17_Witness ==
    /\ last.op = "updateTicket"
    /\ last.role = "MEMBER"
    /\ last.statusBefore = "CLOSED"
    /\ last.body.status = "OPEN"
    /\ last.code = 200
    /\ tickets[last.ticket].status = "OPEN"

\* C18: a create-project or update-project request whose body breaks the
\* declared bounds (here an empty name) is answered 400 and nothing is
\* written.
C18_InvalidBodyRejected ==
    (/\ last.op \in {"createProject", "updateProject"}
     /\ Authenticated
     /\ last.invalid)
    => (last.code = 400 /\ ~last.changed)

StatusCodes == {200, 201, 400, 401, 403, 404, 500}

\* The GET routes.
ReadOps ==
    {"listProjects", "getProject", "listTickets", "getTicket", "listComments",
     "listUsers", "getUser"}

\* C19, as the specification states it: every response has one of the
\* status codes 200, 201, 400, 401, 403, 404, 500; a failure carries `error`
\* and a success carries `message`.
C19_MessageOrError ==
    last.op # "none"
       => /\ last.code \in StatusCodes
          /\ last.code >= 400 => "error" \in last.keys
          /\ last.code < 400 => "message" \in last.keys

\* C19, amended: every response has one of those status codes; a failure
\* carries `error` and nothing else; a successful POST, PUT or DELETE carries
\* `message` and no `error`; a successful GET carries its resource under the
\* resource's own key, with neither `message` nor `error`.
C19_Envelope ==
    last.op # "none"
       => /\ last.code \in StatusCodes
          /\ last.code >= 400 => last.keys = {"error"}
          /\ (last.code < 400 /\ last.op \notin ReadOps)
                => ("message" \in last.keys /\ "error" \notin last.keys)
          /\ (last.code < 400 /\ last.op \in ReadOps)
                => (last.keys # {} /\ last.keys \cap {"message", "error"} = {})

C19_Witness ==
    /\ last.op = "listProjects"
    /\ last.code = 200
    /\ last.keys = {"projects"}
    /\ last.listed # {}

\* C20: listing all users, changing a user's global role and deleting a
\* user are carried out only for a caller whose global role is ADMIN; any
\* other caller is answered 403 and no user row is changed or deleted.
C20_AdminOnlyUserOps ==
    (/\ last.op \in {"listUsers", "updateUserRole", "deleteUser"}
     /\ Authenticated
     /\ last.userRole # "ADMIN")
    => (last.code = 403 /\ ~last.changed)

C22_ExpiredIs401 ==
    /\ last.user = ExpiredToken => (last.code = 401 /\ ~last.changed /\ last.keys = {"error"})
    /\ last.user = MalformedToken => (last.code = 403 /\ ~last.changed /\ last.keys = {"error"})

\* C23: in the ticket detail form, Save with a changed status and a blank
\* comment sends no update request; and when a save that changed the stored
\* status is over, the comment of the form has been stored with it.
C23_CommentWithStatusChange ==
    /\ (form.click.statusChanged /\ form.click.blank) => ~form.click.sent
    /\ (form.pc = "reload" /\ form.saved.put = 200 /\ form.saved.statusWritten)
          => /\ form.saved.post = 201
             /\ \E c \in DOMAIN comments :
                   /\ comments[c].ticketId = FormTicket
                   /\ comments[c].content # ""

\* C30: in the ticket detail form of a ticket whose stored status is not
\* CLOSED, whatever the fields have been edited to, the status select and
\* (no save being in flight) the Save button are enabled, so that CLOSED can
\* be selected and saved: the form is read-only for no ticket but one stored
\* as CLOSED.
C30_ClosedCanBeSaved ==
    (/\ form.pc = "editing"
     /\ FormTicket \in DOMAIN tickets
     /\ tickets[FormTicket].status # "CLOSED"
     /\ form.originalStatus # "CLOSED")
    => (InputEnabled /\ SaveEnabled)

\* C24: whatever update requests a user sends who holds VIEWER on the
\* ticket's project and was not the ticket's assignee, an assignedTo first
\* and a status afterwards included, the status of the ticket stays what it
\* was (OPEN).
C24_ViewerNeverChangesStatus ==
    RoleOf(Viewer, "p1") = "VIEWER" => tickets["t1"].status = "OPEN"

\* C25: every project has exactly one ProjectRole with role OWNER, that of its
\* creator, and a member row written by add-member or update-member-role
\* carries MEMBER, ADMIN or VIEWER whatever the body asked for.
C25_SingleOwner ==
    /\ \A p \in DOMAIN projects :
          {r \in projectRoles : r.projectId = p /\ r.role = "OWNER"}
             = {[userId |-> projects[p].createdBy, projectId |-> p, role |-> "OWNER"]}
    /\ (last.op \in {"addMember", "updateMemberRole"} /\ last.code \in {200, 201})
          => RoleOf(last.target, last.project) \in {"MEMBER", "ADMIN", "VIEWER"}

\* C26: PUT /tickets/:id leaves the projectId and the createdBy of the
\* addressed ticket as they were (the ticket stays in its project, on which
\* the requester holds a role) and leaves every other ticket as it was.
C26_TicketStaysInProject ==
    last.op = "updateTicket"
    => \A t \in DOMAIN last.ticketsBefore :
          /\ t \in DOMAIN tickets
          /\ tickets[t].projectId = last.ticketsBefore[t].projectId
          /\ tickets[t].createdBy = last.ticketsBefore[t].createdBy
          /\ tickets[t].labels = last.ticketsBefore[t].labels
          /\ t # last.ticket => tickets[t] = last.ticketsBefore[t]
          /\ last.changed => RoleOf(last.user, tickets[t].projectId) # "NONE"

\* C27: PUT /users/:id leaves the role and the credentials of every user as
\* they were, and writes the addressed user's profile fields only: nobody
\* changes a global role through it, their own included.
C27_ProfileFieldsOnly ==
    last.op = "updateUser"
    => /\ DOMAIN users = DOMAIN last.usersBefore
       /\ \A x \in DOMAIN users :
             /\ users[x].role = last.usersBefore[x].role
             /\ users[x].password = last.usersBefore[x].password
             /\ x # last.target => users[x] = last.usersBefore[x]

\* C28: a request answered 400, 401, 403, 404 or 500 leaves every table as it
\* was; among them the removal or re-roling of a user without a ProjectRole on
\* the project, and the update or deletion of a project, ticket or comment
\* that does not exist, which are answered with a failure.
C28_FailureWritesNothing ==
    /\ last.code \in {400, 401, 403, 404, 500} => ~last.changed
    /\ (/\ last.op \in {"removeMember", "updateMemberRole"}
        /\ Authenticated /\ ~last.targetHadRow)
          => (last.code \in {400, 500} /\ ~last.changed)
    /\ (/\ last.op \in {"updateProject", "deleteProject", "updateTicket", "deleteTicket",
                         "updateComment", "deleteComment"}
        /\ Authenticated /\ ~last.existed)
          => (last.code \in {404, 500} /\ ~last.changed)

\* The removal of a user who holds no ProjectRole on an existing project was
\* answered 500 and the project's rows are all there.
C28_Witness ==
    /\ last.op = "removeMember" /\ last.code = 500 /\ ~last.changed
    /\ ~last.targetHadRow /\ last.existed
    /\ \E r \in projectRoles : r.projectId = last.project

\* C29: with requests interleaving, a ticket update or deletion that is
\* answered 200 was written while the requester held a ProjectRole on the
\* ticket's project that permits it: one removed or demoted between the
\* handler's access check and its write does not get the write applied.
C29_PermittedAtWrite ==
    \A r \in DOMAIN inflight :
       (Done(r) /\ inflight[r].code = 200) => inflight[r].permittedAtWrite

====
